---- MODULE Spec2Model ----
(***************************************************************************)
(* The agent execution loop of Codemni ToolCall Agent: FlexibleAgent       *)
(* (core/flexible_agent.py with core/tool_executor.py and                  *)
(* core/response_parser.py) and the packaged ToolCallAgent                 *)
(* (agent/ToolCall_Agent/agent.py).                                        *)
(*                                                                         *)
(* Python values are records [t, v]: t is the Python type, v the payload.  *)
(* A str is a sequence of text tokens (the pieces an f-string joins), a    *)
(* dict is a sequence of <<key, value>> pairs in insertion order, each key  *)
(* a str.                                                                  *)
(***************************************************************************)
EXTENDS Integers, Sequences, FiniteSets, TLC

VARIABLES
    kind,            \* which class the agent object is: "flexible" | "packaged"
    llm,             \* self.llm: "unset" (None) or "mock"
    prompt_template, \* self.prompt_template: "unset" (None) or "set"
    tools,           \* the registry dict, in insertion order: Seq of [name, description, function]
    compiled,        \* self._compiled_prompt: [set, tool_list]
    pc,              \* position of invoke: "idle" | "loop" | "done"
    max_iterations,  \* invoke's local max_iterations
    iteration,       \* invoke's local iteration
    scratchpad,      \* invoke's local scratchpad: one entry per "scratchpad +="
    llm_calls,       \* number of llm.generate_response calls made by this invoke
    exec_calls,      \* the execute / execute_tool calls of this invoke, in order, each
                     \* with the tool-function calls it made
    reply,           \* what the model collaborator did on the latest turn
    outcome,         \* how invoke ended: [tag, val]
    prompt_text,     \* invoke's local prompt_text: the compiled prompt with the query bound
    sent,            \* the full prompts generate_response was called with in this invoke
    config,          \* the AgentConfig a FlexibleAgent was constructed from
    pair,            \* two FlexibleAgent objects built from one AgentConfig, and the heap
    provider         \* an AnthropicWrapper object and the requests it has sent

vars == <<kind, llm, prompt_template, tools, compiled, pc, max_iterations, iteration,
          scratchpad, llm_calls, exec_calls, reply, outcome, prompt_text, sent, config,
          pair, provider>>

-----------------------------------------------------------------------------
(* Bounds of the model.                                                    *)

\* Largest registry explored.
MaxTools == 1
\* Largest turn budget a FlexibleAgent is invoked with.
MaxBudget == 2
\* The model collaborator answers freely on its first FreeTurns turns of an
\* invoke and repeats its latest reply afterwards.
FreeTurns == 2

\* max_iterations of the packaged ToolCallAgent.invoke.
PackagedBudget == 10

-----------------------------------------------------------------------------
(* Python values.                                                          *)

PyNone == [t |-> "NoneType", v |-> <<>>]
PyStr(tokens) == [t |-> "str", v |-> tokens]
PyDict(items) == [t |-> "dict", v |-> items]

PySet(items) == [t |-> "set", v |-> items]
PyList(items) == [t |-> "list", v |-> items]

\* The literal "None" the prompts use as the no-value marker.
NoneStr == PyStr(<<"None">>)
EmptyStr == PyStr(<<>>)

PyInt(n) == [t |-> "int", v |-> <<n>>]

\* bool(x)
Truthy(x) == IF x.t = "int" THEN x.v # <<0>> ELSE x.v # <<>>

\* str(int) for the small numbers the loop formats.
NumStr(n) == <<"0", "1", "2", "3", "4", "5", "6", "7", "8", "9", "10", "11", "12">>[n + 1]

\* str(x), as str() and f-string formatting apply it.
Str(x) ==
    CASE x.t = "NoneType" -> NoneStr
      [] x.t = "int" -> PyStr(<<IF x.v[1] = 359784 THEN "359784" ELSE NumStr(x.v[1])>>)
      [] OTHER -> x

\* Text tokens that contain at least one alphabetic character.
AlphaTokens == {"expression", "None", "Paris", "x", "y"}
\* any(c.isalpha() for c in key)
HasAlpha(key) == \E i \in 1..Len(key.v) : key.v[i] \in AlphaTokens

-----------------------------------------------------------------------------
(* Tool functions: the callables a caller registers.                       *)

\* The result of one call: the value returned, or the exception raised.
Returned(val) == [raised |-> FALSE, val |-> val]
Raised(msg) == [raised |-> TRUE, val |-> PyStr(msg)]

\* int(token) for the decimal literals NumStr writes.
IsNumeral(token) == \E n \in 0..12 : NumStr(n) = token
Numeral(token) == CHOOSE n \in 0..12 : NumStr(n) = token

\* eval(expression) inside calculator, where the name "expression" is bound to
\* the argument: a value that is not a string is a TypeError, a decimal
\* literal or a product or sum evaluates to its number, "None" to None, the
\* parameter's own name to the argument, any other name is a NameError.
\* Blanks around a literal are ignored.
eval(expression) ==
    IF expression.t # "str"
    THEN Raised(<<"eval() arg 1 must be a string, bytes or code object">>)
    ELSE LET source == SelectSeq(expression.v, LAMBDA token : token # " ")
         IN  IF source = <<"456*789">> THEN Returned(PyInt(359784))
             ELSE IF source = <<"2+2">> THEN Returned(PyInt(4))
             ELSE IF Len(source) = 1 /\ IsNumeral(source[1])
                  THEN Returned(PyInt(Numeral(source[1])))
             ELSE IF source = <<"None">> THEN Returned(PyNone)
             ELSE IF source = <<"expression">> THEN Returned(expression)
             ELSE IF Len(source) = 1 /\ source[1] \in AlphaTokens
                  THEN Raised(<<"name '", source[1], "' is not defined">>)
             ELSE Raised(<<"<eval error>">>)

\* calculator(expression) of the examples: eval(expression), with eval's own
\* errors returned as text; a call that does not bind its one parameter raises
\* TypeError.  "boom" raises whatever it is given, "noop" returns no value,
\* "blank" returns "".
CallFn(fn, args, kwargs) ==
    CASE fn = "calculator" ->
            IF \/ Len(args) = 1 /\ Len(kwargs) = 0
               \/ Len(args) = 0 /\ Len(kwargs) = 1 /\ kwargs[1][1] = PyStr(<<"expression">>)
            THEN LET expression == IF Len(args) = 1 THEN args[1] ELSE kwargs[1][2]
                     result == eval(expression)
                 IN  IF result.raised
                     THEN Returned(PyStr(<<"Error: ">> \o result.val.v))
                     ELSE Returned(result.val)
            ELSE Raised(<<"calculator() got unexpected arguments">>)
      [] fn = "boom" -> Raised(<<"boom">>)
      [] fn = "noop" -> Returned(PyNone)
      [] OTHER -> Returned(EmptyStr)

\* One recorded call of a tool function.
CallRec(name, fn, args, kwargs) ==
    [tool |-> name, function |-> fn, args |-> args, kwargs |-> kwargs,
     result |-> CallFn(fn, args, kwargs)]

\* The (name, description, function) triples a caller registers.
ToolBox ==
    { [name |-> "calculator", description |-> "Evaluates expressions", function |-> "calculator"],
      [name |-> "boom", description |-> "Always fails", function |-> "boom"],
      [name |-> "noop", description |-> "Returns nothing", function |-> "noop"],
      [name |-> "blank", description |-> "Returns empty text", function |-> "blank"] }

-----------------------------------------------------------------------------
(* The tool registry: a dict name -> info, in insertion order.             *)

Names(reg) == { reg[i].name : i \in 1..Len(reg) }

\* name in self.tools
HasTool(reg, name) == name \in Names(reg)

\* self.tools[name]
Lookup(reg, name) == reg[CHOOSE i \in 1..Len(reg) : reg[i].name = name]

\* register_tool that puts a new key first.
register_tool_front(reg, entry) ==
    IF HasTool(reg, entry.name)
    THEN [i \in 1..Len(reg) |-> IF reg[i].name = entry.name THEN entry ELSE reg[i]]
    ELSE <<entry>> \o reg

\* self.tools[name] = {...}: a new key goes last, an existing key keeps its place.
register_tool(reg, entry) ==
    IF HasTool(reg, entry.name)
    THEN [i \in 1..Len(reg) |-> IF reg[i].name = entry.name THEN entry ELSE reg[i]]
    ELSE Append(reg, entry)

\* unregister_tool that drops the newest entry, whatever the name.
unregister_tool_newest(reg, name) ==
    IF HasTool(reg, name)
    THEN [removed |-> TRUE, reg |-> SubSeq(reg, 1, Len(reg) - 1)]
    ELSE [removed |-> FALSE, reg |-> reg]

\* del self.tools[name] when the name is registered; the bool it returns.
unregister_tool(reg, name) ==
    IF HasTool(reg, name)
    THEN [removed |-> TRUE, reg |-> SelectSeq(reg, LAMBDA e : e.name # name)]
    ELSE [removed |-> FALSE, reg |-> reg]

\* self.tools.get(name): the info dict, or None.
NotFound == [found |-> FALSE, description |-> "", function |-> ""]
get_tool(reg, name) ==
    IF HasTool(reg, name)
    THEN [found |-> TRUE, description |-> Lookup(reg, name).description,
          function |-> Lookup(reg, name).function]
    ELSE NotFound

\* list(self.tools.keys())
list_tools(reg) == [i \in 1..Len(reg) |-> reg[i].name]

\* "\n".join(f"- {name}: {info['description']}" ...): one line per tool, in
\* the dict's order; this is the tool list a FlexibleAgent prompt carries.
get_tools_description(reg) ==
    [i \in 1..Len(reg) |-> <<"- ", reg[i].name, ": ", reg[i].description>>]

\* The tool list ToolCallAgent._compile_prompt joins: the same lines, indented.
compile_tool_list(reg) ==
    [i \in 1..Len(reg) |-> <<"        - ", reg[i].name, ": ", reg[i].description>>]

-----------------------------------------------------------------------------
(* Parameter binding and tool execution.                                   *)

\* x == "None"
IsNoneStr(x) == x.t = "str" /\ x.v = <<"None">>

\* A value that can be a dict key: lists, dicts and sets are unhashable.
Hashable(x) == x.t \notin {"list", "dict", "set"}

\* The text f"{tool_name}" writes for a hashable tool name, which for a str is
\* the registry key it names.
NameOf(x) == LET text == Str(x).v IN IF Len(text) = 1 THEN text[1] ELSE ""

\* tool_name in self.tools, for a hashable tool_name: only a str is a key.
InTools(reg, x) == x.t = "str" /\ HasTool(reg, NameOf(x))

\* json.loads of a parameters string: the number documents decode, free text does not.
json_loads(x) ==
    IF x.v = <<"7">> THEN [ok |-> TRUE, val |-> PyInt(7)]
    ELSE [ok |-> FALSE, val |-> PyNone]

\* s.split(','): the token runs between "," tokens.
RECURSIVE Split(_, _)
Split(tokens, cur) ==
    IF tokens = <<>> THEN <<cur>>
    ELSE IF Head(tokens) = "," THEN <<cur>> \o Split(Tail(tokens), <<>>)
    ELSE Split(Tail(tokens), Append(cur, Head(tokens)))

\* p.strip(): blank tokens at either end are dropped.
RECURSIVE Strip(_)
Strip(seg) ==
    IF seg = <<>> THEN seg
    ELSE IF Head(seg) = " " THEN Strip(Tail(seg))
    ELSE IF seg[Len(seg)] = " " THEN Strip(SubSeq(seg, 1, Len(seg) - 1))
    ELSE seg

\* The split without the strip of each segment.
SplitParams_unstripped(param_string) ==
    LET segs == Split(Str(param_string).v, <<>>)
    IN  [i \in 1..Len(segs) |-> PyStr(segs[i])]

\* [p.strip() for p in str(param_string).split(',')]
SplitParams(param_string) ==
    LET segs == Split(Str(param_string).v, <<>>)
    IN  [i \in 1..Len(segs) |-> PyStr(Strip(segs[i]))]

\* What an execution step hands back: a value or a propagating exception, and
\* the tool-function calls it made.
Ret(val, calls) == [raised |-> FALSE, val |-> val, calls |-> calls]
Exc(val, calls) == [raised |-> TRUE, val |-> val, calls |-> calls]

\* The call made by one binder branch; conv is applied to a returned value.
RawCall(name, fn, args, kwargs) ==
    LET c == CallRec(name, fn, args, kwargs)
    IN  IF c.result.raised THEN Exc(c.result.val, <<c>>) ELSE Ret(c.result.val, <<c>>)

StrCall(name, fn, args, kwargs) ==
    LET r == RawCall(name, fn, args, kwargs)
    IN  IF r.raised THEN r ELSE Ret(Str(r.val), r.calls)

\* f"Error executing tool '{tool_name}': {str(e)}"
ErrExec(name, e) == PyStr(<<"Error executing tool '", name, "': ">> \o e.v)
\* f"Error: Tool '{tool_name}' not found"
ErrNotFound(name) == PyStr(<<"Error: Tool '", name, "' not found">>)
\* TypeError of "tool_name not in self.tools": f"unhashable type: '{type}'"
ErrUnhashable(x) == PyStr(<<"unhashable type: '", x.t, "'">>)
ErrParamFormat == PyStr(<<"Error: Invalid parameter format">>)
ErrParamType == PyStr(<<"Error: Unexpected parameter type">>)

\* except Exception as e: return f"Error executing tool ..."
Guarded(name, r) == IF r.raised THEN Ret(ErrExec(name, r.val), r.calls) ELSE r

\* _execute_with_params that passes a mapping's values positionally.
execute_with_params_values(fn, params, name) ==
    IF params.t = "dict"
    THEN StrCall(name, fn, [i \in 1..Len(params.v) |-> params.v[i][2]], <<>>)
    ELSE IF params.t = "set" THEN StrCall(name, fn, SplitParams(params.v[1]), <<>>)
    ELSE IF params.t = "list" THEN StrCall(name, fn, params.v, <<>>)
    ELSE StrCall(name, fn, <<params>>, <<>>)

\* ToolExecutor._execute_with_params
execute_with_params(fn, params, name) ==
    IF params.t = "dict"
    THEN IF Len(params.v) > 0
         THEN LET first_key == params.v[1][1]
                  first_value == params.v[1][2]
              IN  IF Truthy(first_key) /\ HasAlpha(first_key)
                  THEN StrCall(name, fn, <<>>, params.v)
                  ELSE StrCall(name, fn,
                               SplitParams(IF Truthy(first_value) THEN first_value
                                           ELSE first_key), <<>>)
         ELSE StrCall(name, fn, <<>>, <<>>)
    ELSE IF params.t = "set" THEN StrCall(name, fn, SplitParams(params.v[1]), <<>>)
    ELSE IF params.t = "list" THEN StrCall(name, fn, params.v, <<>>)
    ELSE StrCall(name, fn, <<params>>, <<>>)

\* execute without the try around the zero-argument call.
execute_unguarded(reg, tool_name, tool_parameters) ==
    LET name == NameOf(tool_name) IN
    IF ~Hashable(tool_name) THEN Exc(ErrUnhashable(tool_name), <<>>)
    ELSE IF ~InTools(reg, tool_name) THEN Ret(ErrNotFound(name), <<>>)
    ELSE LET fn == Lookup(reg, name).function IN
         IF ~Truthy(tool_parameters) \/ IsNoneStr(tool_parameters)
         THEN StrCall(name, fn, <<>>, <<>>)
         ELSE IF tool_parameters.t = "str"
              THEN LET j == json_loads(tool_parameters)
                   IN  IF ~j.ok THEN Ret(ErrParamFormat, <<>>)
                       ELSE Guarded(name, execute_with_params(fn, j.val, name))
              ELSE Guarded(name, execute_with_params(fn, tool_parameters, name))

\* execute with the string decoding ahead of the no-parameters test.
execute_decode_first(reg, tool_name, tool_parameters) ==
    LET name == NameOf(tool_name) IN
    IF ~Hashable(tool_name) THEN Exc(ErrUnhashable(tool_name), <<>>)
    ELSE IF ~InTools(reg, tool_name) THEN Ret(ErrNotFound(name), <<>>)
    ELSE LET fn == Lookup(reg, name).function IN
         IF tool_parameters.t = "str"
         THEN LET j == json_loads(tool_parameters)
              IN  IF ~j.ok THEN Ret(ErrParamFormat, <<>>)
                  ELSE Guarded(name, execute_with_params(fn, j.val, name))
         ELSE IF ~Truthy(tool_parameters)
              THEN Guarded(name, StrCall(name, fn, <<>>, <<>>))
              ELSE Guarded(name, execute_with_params(fn, tool_parameters, name))

\* ToolExecutor.execute
execute(reg, tool_name, tool_parameters) ==
    LET name == NameOf(tool_name) IN
    IF ~Hashable(tool_name) THEN Exc(ErrUnhashable(tool_name), <<>>)
    ELSE IF ~InTools(reg, tool_name) THEN Ret(ErrNotFound(name), <<>>)
    ELSE LET fn == Lookup(reg, name).function IN
         IF ~Truthy(tool_parameters) \/ IsNoneStr(tool_parameters)
         THEN Guarded(name, StrCall(name, fn, <<>>, <<>>))
         ELSE IF tool_parameters.t = "str"
              THEN LET j == json_loads(tool_parameters)
                   IN  IF ~j.ok THEN Ret(ErrParamFormat, <<>>)
                       ELSE Guarded(name, execute_with_params(fn, j.val, name))
              ELSE Guarded(name, execute_with_params(fn, tool_parameters, name))

\* The try block of the packaged execute_tool.
execute_tool_bind(fn, params, name) ==
    IF params.t = "dict"
    THEN IF Len(params.v) > 0
         THEN LET first_key == params.v[1][1]
                  first_value == params.v[1][2]
              IN  IF Truthy(first_key) /\ HasAlpha(first_key)
                  THEN RawCall(name, fn, <<>>, params.v)
                  ELSE RawCall(name, fn,
                               SplitParams(IF Truthy(first_value) THEN first_value
                                           ELSE first_key), <<>>)
         ELSE RawCall(name, fn, <<>>, <<>>)
    ELSE IF params.t = "set" THEN RawCall(name, fn, SplitParams(params.v[1]), <<>>)
    ELSE Ret(ErrParamType, <<>>)

\* execute_tool of the packaged agent
execute_tool(tool_name, tool_parameters, reg) ==
    LET name == NameOf(tool_name) IN
    IF ~Hashable(tool_name) THEN Exc(ErrUnhashable(tool_name), <<>>)
    ELSE IF ~InTools(reg, tool_name) THEN Ret(ErrNotFound(name), <<>>)
    ELSE LET fn == Lookup(reg, name).function IN
         IF ~Truthy(tool_parameters) \/ IsNoneStr(tool_parameters)
         THEN RawCall(name, fn, <<>>, <<>>)
         ELSE IF tool_parameters.t = "str"
              THEN LET j == json_loads(tool_parameters)
                   IN  IF ~j.ok THEN Ret(ErrParamFormat, <<>>)
                       ELSE Guarded(name, execute_tool_bind(fn, j.val, name))
              ELSE Guarded(name, execute_tool_bind(fn, tool_parameters, name))

-----------------------------------------------------------------------------
(* The response format and the model collaborator's replies.               *)

\* ResponseFormat of TOOLCALL_AGENT_CONFIG; the packaged agent hard-codes the same keys.
RequiredKeys == <<"Tool call", "Tool Parameters", "Final Response">>
KeyMapping ==
    ("tool" :> "Tool call") @@ ("params" :> "Tool Parameters") @@ ("response" :> "Final Response")

\* ResponseFormat(required_keys, key_mapping, defaults)
ResponseFormat(required_keys, key_mapping, defaults) ==
    [required_keys |-> required_keys, key_mapping |-> key_mapping, defaults |-> defaults]

\* ResponseFormat.get_json_key: key_mapping.get(internal_name, internal_name)
get_json_key(fmt, internal_name) ==
    IF internal_name \in DOMAIN fmt.key_mapping THEN fmt.key_mapping[internal_name]
    ELSE internal_name

\* An empty dict.
EmptyDict == [k \in {} |-> ""]

\* AgentConfig(name, prompt_template, response_format, max_iterations); of the
\* prompt template the model keeps the value it tells the model collaborator
\* to put in the tool field when no tool is needed.
AgentConfig(name, no_tool, response_format, n) ==
    [name |-> name, no_tool |-> no_tool, response_format |-> response_format,
     max_iterations |-> n]

\* The default of AgentConfig.max_iterations.
DefaultMaxIterations == 10

TOOLCALL_AGENT_CONFIG ==
    AgentConfig("ToolCallAgent", NoneStr,
        ResponseFormat(RequiredKeys, KeyMapping,
            ("Tool call" :> NoneStr) @@ ("Tool Parameters" :> NoneStr)
                @@ ("Final Response" :> NoneStr)),
        DefaultMaxIterations)

ACTION_AGENT_CONFIG ==
    AgentConfig("ActionAgent", PyStr(<<"respond">>),
        ResponseFormat(<<"action", "input", "output">>,
            ("tool" :> "action") @@ ("params" :> "input") @@ ("response" :> "output"),
            ("action" :> PyStr(<<"respond">>)) @@ ("input" :> NoneStr) @@ ("output" :> EmptyStr)),
        DefaultMaxIterations)

REACT_AGENT_CONFIG ==
    AgentConfig("ReActAgent", NoneStr,
        ResponseFormat(<<"thought", "action", "action_input", "answer">>,
            ("tool" :> "action") @@ ("params" :> "action_input") @@ ("response" :> "answer")
                @@ ("reasoning" :> "thought"),
            ("thought" :> EmptyStr) @@ ("action" :> NoneStr) @@ ("action_input" :> NoneStr)
                @@ ("answer" :> NoneStr)),
        DefaultMaxIterations)

FUNCTION_AGENT_CONFIG ==
    AgentConfig("FunctionAgent", PyNone,
        ResponseFormat(<<"function", "args", "result">>,
            ("tool" :> "function") @@ ("params" :> "args") @@ ("response" :> "result"),
            ("function" :> PyNone) @@ ("args" :> PyNone) @@ ("result" :> PyNone)),
        DefaultMaxIterations)

COT_AGENT_CONFIG ==
    AgentConfig("ChainOfThoughtAgent", NoneStr,
        ResponseFormat(<<"reasoning_steps", "tool_needed", "tool_args", "final_answer">>,
            ("tool" :> "tool_needed") @@ ("params" :> "tool_args")
                @@ ("response" :> "final_answer") @@ ("reasoning" :> "reasoning_steps"),
            ("reasoning_steps" :> PyList(<<>>)) @@ ("tool_needed" :> NoneStr)
                @@ ("tool_args" :> NoneStr) @@ ("final_answer" :> NoneStr)),
        DefaultMaxIterations)

\* The registry of predefined configs.
AGENT_CONFIGS ==
    ("toolcall" :> TOOLCALL_AGENT_CONFIG) @@ ("action" :> ACTION_AGENT_CONFIG)
        @@ ("react" :> REACT_AGENT_CONFIG) @@ ("function" :> FUNCTION_AGENT_CONFIG)
        @@ ("cot" :> COT_AGENT_CONFIG)

\* get_agent_config, for a name the registry holds.
get_agent_config(config_name) == AGENT_CONFIGS[config_name]

\* create_custom_config: key_mapping is None (given FALSE) or a dict; the
\* ResponseFormat gets "key_mapping or {}" and no defaults.
create_custom_config(name, no_tool, required_keys, key_mapping) ==
    AgentConfig(name, no_tool,
        ResponseFormat(required_keys,
                       IF key_mapping.given THEN key_mapping.dict ELSE EmptyDict,
                       EmptyDict),
        DefaultMaxIterations)

\* d.get(key, default)
Get(d, key, default) == IF key \in DOMAIN d THEN d[key] ELSE default

\* A decoded JSON object with all three keys.
Obj(t, p, a) ==
    ("Tool call" :> t) @@ ("Tool Parameters" :> p) @@ ("Final Response" :> a)

\* One generate_response call: it raises, or returns text that holds no fenced
\* block, a block json.loads rejects, or a block that decodes to obj.
LLMRaises == [kind |-> "raise", block |-> "none", obj |-> <<>>]
NoBlock == [kind |-> "text", block |-> "none", obj |-> <<>>]
Malformed == [kind |-> "text", block |-> "malformed", obj |-> <<>>]
Json(obj) == [kind |-> "text", block |-> "json", obj |-> obj]
NoReply == [kind |-> "none", block |-> "none", obj |-> <<>>]

KwParams == PyDict(<< <<PyStr(<<"expression">>), PyStr(<<"456*789">>)>> >>)
\* {"2, 3": ""}: one unnamed entry, a comma-delimited key without a value.
PosParams == PyDict(<< <<PyStr(<<"2", ",", " ", "3">>), EmptyStr>> >>)
\* "7": a string that is a JSON document; "Paris": a string that is not.
NumParams == PyStr(<<"7">>)
TextParams == PyStr(<<"Paris">>)
Answer42 == PyStr(<<"42">>)

ToolVals(reg) == {NoneStr, PyNone} \cup { PyStr(<<n>>) : n \in Names(reg) \cup {"ghost"} }
ParamVals == {NoneStr, KwParams}
AnswerVals == {NoneStr, Answer42}
\* Further parameter shapes, tried with tool turns that give no answer.
ShapeVals == {PosParams, NumParams, TextParams}
\* Tool fields that are not a string: ["calculator"] and 7.
OddToolVals == {PyList(<<PyStr(<<"calculator">>)>>), PyInt(7)}

\* The replies the model collaborator is drawn from, for a given registry.
Replies(reg) ==
    {LLMRaises, NoBlock, Malformed}
    \cup { Json(Obj(t, p, a)) : t \in ToolVals(reg), p \in ParamVals, a \in AnswerVals }
    \cup { Json(Obj(PyStr(<<n>>), p, NoneStr)) : n \in Names(reg), p \in ShapeVals }
    \cup { Json("Tool call" :> t) : t \in ToolVals(reg) }
    \cup { Json(("Tool call" :> NoneStr) @@ ("Final Response" :> Answer42)) }
    \cup { Json(Obj(PyNone, PyNone, PyNone)) }
    \cup { Json(Obj(t, NoneStr, NoneStr)) : t \in OddToolVals }

\* A parse step: the parsed mapping, or the ValueError it raises.
Parsed(val) == [ok |-> TRUE, val |-> val, err |-> EmptyStr]
ParseFails(msg) == [ok |-> FALSE, val |-> <<>>, err |-> PyStr(msg)]

\* [key for key in required_keys if key not in parsed_json]
MissingKeys(obj, required_keys) ==
    SelectSeq(required_keys, LAMBDA k : k \notin DOMAIN obj)

\* parse_json_response with a fallback in place of the raise: a reply without
\* a decodable block is read as an object of "None" markers.
parse_json_response_lenient(response, required_keys) ==
    IF response.block # "json" THEN Parsed(Obj(NoneStr, NoneStr, NoneStr))
    ELSE IF MissingKeys(response.obj, required_keys) # <<>>
         THEN ParseFails(<<"Missing required keys: ">> \o MissingKeys(response.obj, required_keys))
         ELSE Parsed(response.obj)

\* parse_json_response with defaults in place of the missing-keys check: an
\* absent required key reads as the "None" marker.
parse_json_response_defaults(response, required_keys) ==
    IF response.block = "none" THEN ParseFails(<<"No JSON block found in response: ", "<response>">>)
    ELSE IF response.block = "malformed" THEN ParseFails(<<"Invalid JSON format: ", "<detail>">>)
    ELSE Parsed(Obj(Get(response.obj, "Tool call", NoneStr),
                    Get(response.obj, "Tool Parameters", NoneStr),
                    Get(response.obj, "Final Response", NoneStr)))

\* ResponseParser.parse_json_response
parse_json_response(response, required_keys) ==
    IF response.block = "none" THEN ParseFails(<<"No JSON block found in response: ", "<response>">>)
    ELSE IF response.block = "malformed" THEN ParseFails(<<"Invalid JSON format: ", "<detail>">>)
    ELSE IF MissingKeys(response.obj, required_keys) # <<>>
         THEN ParseFails(<<"Missing required keys: ">> \o MissingKeys(response.obj, required_keys))
         ELSE Parsed(response.obj)

\* FlexibleAgent._parse_response
parse_response(fmt, response) ==
    LET parsed == parse_json_response(response, fmt.required_keys)
        present == { k \in {"tool", "params", "response", "reasoning"} :
                        get_json_key(fmt, k) \in DOMAIN parsed.val }
    IN  IF ~parsed.ok THEN parsed
        ELSE Parsed([k \in present |-> parsed.val[get_json_key(fmt, k)]])

\* parse_agent_response of the packaged agent
parse_agent_response(response) ==
    IF response.block = "none"
    THEN ParseFails(<<"Invalid response format: No JSON block found in response: ", "<response>">>)
    ELSE IF response.block = "malformed" THEN ParseFails(<<"<JSONDecodeError>">>)
    ELSE Parsed(Obj(Get(response.obj, "Tool call", NoneStr),
                    Get(response.obj, "Tool Parameters", NoneStr),
                    Get(response.obj, "Final Response", NoneStr)))

-----------------------------------------------------------------------------
(* One loop iteration after the model has replied.                         *)

\* How an iteration ends: "final" / "parse_error" return val, "raised" lets the
\* exception val escape invoke, "continue" appends entry and loops.
Step(tag, val, entry, execs) ==
    [tag |-> tag, val |-> val, entry |-> entry, execs |-> execs]

\* One recorded execute / execute_tool call.
ExecRec(tool_name, params, x) ==
    [tool |-> tool_name, params |-> params, calls |-> x.calls, raised |-> x.raised,
     returned |-> x.val]

\* f"Error parsing response: {str(e)}"
ErrParsing(e) == PyStr(<<"Error parsing response: ">> \o e.v)
NoResponse == PyStr(<<"No response provided">>)

\* One "scratchpad +=": the tool name and the formatted result.
Entry(tool_name, tool_result) == [tool |-> tool_name, result |-> Str(tool_result)]

\* The tool step both loops share, given what executing the tool handed back.
AfterTool(tool_name, params, x) ==
    IF x.raised THEN Step("raised", x.val, <<>>, <<ExecRec(tool_name, params, x)>>)
    ELSE Step("continue", PyNone, <<Entry(tool_name, x.val)>>, <<ExecRec(tool_name, params, x)>>)

\* FlexibleAgent.invoke, lines 126-163
flexible_iteration(fmt, reg, response) ==
    LET parsed == parse_response(fmt, response) IN
    IF ~parsed.ok THEN Step("parse_error", ErrParsing(parsed.err), <<>>, <<>>)
    ELSE LET tool_name == Get(parsed.val, "tool", NoneStr)
             params == Get(parsed.val, "params", NoneStr)
             final_answer == Get(parsed.val, "response", NoneStr)
         IN  IF IsNoneStr(tool_name) \/ tool_name.t = "NoneType" \/ ~Truthy(tool_name)
             THEN Step("final",
                       IF Truthy(final_answer) /\ ~IsNoneStr(final_answer)
                       THEN final_answer ELSE NoResponse,
                       <<>>, <<>>)
             ELSE AfterTool(tool_name, params, execute(reg, tool_name, params))

\* ToolCallAgent.invoke, lines 282-314
packaged_iteration(reg, response) ==
    LET parsed == parse_agent_response(response) IN
    IF ~parsed.ok THEN Step("parse_error", ErrParsing(parsed.err), <<>>, <<>>)
    ELSE LET tool_name == parsed.val["Tool call"]
             params == parsed.val["Tool Parameters"]
             final_answer == parsed.val["Final Response"]
         IN  IF IsNoneStr(tool_name) \/ ~Truthy(tool_name)
             THEN Step("final", final_answer, <<>>, <<>>)
             ELSE AfterTool(tool_name, params, execute_tool(tool_name, params, reg))

\* The budget-exhausted message of either loop.
ErrMaxIterations(k, n) ==
    IF k = "flexible"
    THEN PyStr(<<"Error: Maximum iterations (", NumStr(n), ") reached">>)
    ELSE PyStr(<<"Error: Maximum iterations reached">>)

-----------------------------------------------------------------------------
(* The agent as a state machine.                                           *)

NoPrompt == [set |-> FALSE, tool_list |-> <<>>]
NoOutcome == [tag |-> "none", val |-> PyNone]
NoPromptText == [tool_list |-> <<>>, user_input |-> ""]
\* No pair of agents and no provider wrapper has been constructed.
NoPair == <<>>
NoProvider == <<>>

\* The requests a caller passes to invoke.
Queries == {"q"}

\* self._compiled_prompt.format(user_input=query)
format_prompt(prompt, query) == [tool_list |-> prompt.tool_list, user_input |-> query]

\* The locals an invoke that carries the previous invoke's transcript and
\* iteration count over would start with.
invoke_locals_kept(old_scratchpad, old_iteration) ==
    [scratchpad |-> old_scratchpad, iteration |-> old_iteration]

\* scratchpad = "" and iteration = 0 at the head of invoke.
invoke_locals(old_scratchpad, old_iteration) == [scratchpad |-> <<>>, iteration |-> 0]

\* A full prompt that replays the latest transcript entry only.
full_prompt_latest(text, pad) ==
    [text |-> text, scratchpad |-> IF pad = <<>> THEN pad ELSE <<pad[Len(pad)]>>]

\* f"{prompt_text}\n{scratchpad}" if scratchpad else prompt_text
full_prompt(text, pad) == [text |-> text, scratchpad |-> pad]

\* iteration += 1
next_iteration(i) == i + 1

Init ==
    /\ kind \in {"flexible", "packaged"}
    /\ llm = "unset"
    /\ prompt_template \in {"set", "unset"}
    /\ kind = "packaged" => prompt_template = "set"
    /\ tools = <<>>
    /\ compiled = NoPrompt
    /\ pc = "idle"
    /\ max_iterations = 0
    /\ iteration = 0
    /\ scratchpad = <<>>
    /\ llm_calls = 0
    /\ exec_calls = <<>>
    /\ reply = NoReply
    /\ outcome = NoOutcome
    /\ prompt_text = NoPromptText
    /\ sent = <<>>
    /\ config = TOOLCALL_AGENT_CONFIG
    /\ pair = NoPair
    /\ provider = NoProvider

\* BaseAgent.set_llm / ToolCallAgent.add_llm
SetLLM ==
    /\ pc = "idle"
    /\ llm' = "mock"
    /\ UNCHANGED <<kind, config, pair, provider, prompt_template, tools, compiled, pc, max_iterations, iteration, scratchpad,
                   llm_calls, exec_calls, reply, outcome, prompt_text, sent>>

\* BaseAgent.add_tool resets the compiled prompt; ToolCallAgent.add_tool does not.
add_tool(k, reg, prompt, entry) ==
    [reg |-> register_tool(reg, entry),
     prompt |-> IF k = "flexible" THEN NoPrompt ELSE prompt]

\* remove_tool without the reset of the compiled prompt.
remove_tool_keep_prompt(reg, prompt, name) ==
    [reg |-> unregister_tool(reg, name).reg, prompt |-> prompt]

\* BaseAgent.remove_tool: the compiled prompt is reset when a tool was removed.
remove_tool(reg, prompt, name) ==
    LET result == unregister_tool(reg, name)
    IN  [reg |-> result.reg,
         prompt |-> IF result.removed THEN NoPrompt ELSE prompt]

\* add_tool with an entry of box, the registry kept within limit entries.
AddToolFrom(box, limit) ==
    /\ pc = "idle"
    /\ \E e \in box :
        /\ HasTool(tools, e.name) \/ Len(tools) < limit
        /\ LET r == add_tool(kind, tools, compiled, e)
           IN  tools' = r.reg /\ compiled' = r.prompt
    /\ UNCHANGED <<kind, config, pair, provider, llm, prompt_template, pc, max_iterations, iteration, scratchpad,
                   llm_calls, exec_calls, reply, outcome, prompt_text, sent>>

AddTool == AddToolFrom(ToolBox, MaxTools)

\* BaseAgent.remove_tool, of a registered name or of one that is not.
RemoveTool ==
    /\ pc = "idle"
    /\ kind = "flexible"
    /\ \E n \in Names(tools) \cup {"ghost"} :
        LET r == remove_tool(tools, compiled, n)
        IN  tools' = r.reg /\ compiled' = r.prompt
    /\ UNCHANGED <<kind, config, pair, provider, llm, prompt_template, pc, max_iterations, iteration, scratchpad,
                   llm_calls, exec_calls, reply, outcome, prompt_text, sent>>

\* The outcome of a validation.
Valid == [ok |-> TRUE, msg |-> ""]
Invalid(msg) == [ok |-> FALSE, msg |-> msg]

\* validate_setup without the check of the prompt template.
validate_setup_no_template(l, reg, template) ==
    IF l = "unset" THEN Invalid("LLM not set. Call set_llm() first")
    ELSE IF Len(list_tools(reg)) = 0 THEN Invalid("No tools added. Call add_tool() at least once")
    ELSE Valid

\* BaseAgent.validate_setup
validate_setup(l, reg, template) ==
    IF l = "unset" THEN Invalid("LLM not set. Call set_llm() first")
    ELSE IF Len(list_tools(reg)) = 0 THEN Invalid("No tools added. Call add_tool() at least once")
    ELSE IF template = "unset" THEN Invalid("Prompt template not set")
    ELSE Valid

\* The two checks at the head of ToolCallAgent.invoke.
packaged_validate(l, reg) ==
    IF l = "unset" THEN Invalid("LLM not set. Call add_llm() first")
    ELSE IF reg = <<>> THEN Invalid("No tools added. Call add_tool() at least once")
    ELSE Valid

\* _compile_prompt of either class: the tool list the compiled prompt carries.
compile_prompt(k, reg) ==
    [set |-> TRUE,
     tool_list |-> IF k = "flexible" THEN get_tools_description(reg) ELSE compile_tool_list(reg)]

\* invoke up to the loop, with a query of queries: a failed validation raises
\* ValueError, else the prompt is compiled if none is cached, the query is
\* bound and the locals are initialised.  invoke can be called again as soon
\* as the previous call has ended.
InvokeStartWith(queries) ==
    /\ pc \in {"idle", "done"}
    /\ llm_calls' = 0
    /\ exec_calls' = <<>>
    /\ reply' = NoReply
    /\ sent' = <<>>
    /\ LET v == IF kind = "flexible" THEN validate_setup(llm, tools, prompt_template)
                ELSE packaged_validate(llm, tools)
           locals == invoke_locals(scratchpad, iteration)
       IN  IF ~v.ok
           THEN /\ pc' = "done"
                /\ outcome' = [tag |-> "config_error", val |-> PyStr(<<v.msg>>)]
                /\ scratchpad' = <<>>
                /\ iteration' = 0
                /\ max_iterations' = 0
                /\ prompt_text' = NoPromptText
                /\ UNCHANGED compiled
           ELSE /\ pc' = "loop"
                /\ outcome' = NoOutcome
                /\ compiled' = IF compiled.set THEN compiled ELSE compile_prompt(kind, tools)
                /\ \E query \in queries : prompt_text' = format_prompt(compiled', query)
                /\ scratchpad' = locals.scratchpad
                /\ iteration' = locals.iteration
                /\ IF kind = "flexible"
                   THEN \E n \in 1..MaxBudget : max_iterations' = n
                   ELSE max_iterations' = PackagedBudget
    /\ UNCHANGED <<kind, config, pair, provider, llm, prompt_template, tools>>

InvokeStart == InvokeStartWith(Queries)

\* The iteration for this agent's class.
Iteration(response) ==
    IF kind = "flexible" THEN flexible_iteration(config.response_format, tools, response)
    ELSE packaged_iteration(tools, response)

\* One pass of the while loop: the model is called, its reply (one of
\* replies) is parsed and acted on.
TurnFrom(replies) ==
    /\ pc = "loop"
    /\ iteration < max_iterations
    /\ \E r \in replies :
        /\ llm_calls >= FreeTurns => r = reply
        /\ reply' = r
        /\ sent' = Append(sent, full_prompt(prompt_text, scratchpad))
        /\ LET st == IF r.kind = "raise"
                     THEN Step("raised", PyStr(<<"<llm error>">>), <<>>, <<>>)
                     ELSE Iteration(r)
           IN  /\ scratchpad' = scratchpad \o st.entry
               /\ exec_calls' = exec_calls \o st.execs
               /\ IF st.tag = "continue"
                  THEN pc' = "loop" /\ outcome' = outcome
                  ELSE pc' = "done" /\ outcome' = [tag |-> st.tag, val |-> st.val]
    /\ iteration' = next_iteration(iteration)
    /\ llm_calls' = llm_calls + 1
    /\ UNCHANGED <<kind, config, pair, provider, llm, prompt_template, tools, compiled,
                   max_iterations, prompt_text>>

Turn == TurnFrom(Replies(tools))

\* The while condition fails: the budget-exhausted message is returned.
Exhaust ==
    /\ pc = "loop"
    /\ iteration >= max_iterations
    /\ pc' = "done"
    /\ outcome' = [tag |-> "budget", val |-> ErrMaxIterations(kind, max_iterations)]
    /\ UNCHANGED <<kind, config, pair, provider, llm, prompt_template, tools, compiled, max_iterations, iteration, scratchpad,
                   llm_calls, exec_calls, reply, prompt_text, sent>>

\* invoke has ended; its locals are gone and the agent is idle again.
Return ==
    /\ pc = "done"
    /\ pc' = "idle"
    /\ max_iterations' = 0
    /\ iteration' = 0
    /\ scratchpad' = <<>>
    /\ llm_calls' = 0
    /\ exec_calls' = <<>>
    /\ reply' = NoReply
    /\ outcome' = NoOutcome
    /\ prompt_text' = NoPromptText
    /\ sent' = <<>>
    /\ UNCHANGED <<kind, config, pair, provider, llm, prompt_template, tools, compiled>>

Next == SetLLM \/ AddTool \/ RemoveTool \/ InvokeStart \/ Turn \/ Exhaust \/ Return

Spec == Init /\ [][Next]_vars

\* invoke runs its loop on the caller's thread without waiting on anything but
\* the calls it makes, which are taken to return or raise: a loop pass that
\* can be taken is taken, and so is the exit once the while condition fails.
\* The model collaborator fails, returns an undecodable block, or returns a
\* complete object that names no tool (with or without an answer), names a
\* tool (registered or not) and gives no answer, or holds a tool field that
\* is not a string.
LiveReplies(reg) ==
    {LLMRaises, Malformed}
    \cup { Json(Obj(NoneStr, NoneStr, a)) : a \in AnswerVals }
    \cup { Json(Obj(PyStr(<<n>>), KwParams, NoneStr)) : n \in Names(reg) \cup {"ghost"} }
    \cup { Json(Obj(t, NoneStr, NoneStr)) : t \in OddToolVals }

LiveTurn == TurnFrom(LiveReplies(tools))

LiveNext == SetLLM \/ AddTool \/ InvokeStart \/ LiveTurn \/ Exhaust \/ Return

LiveSpec == Init /\ [][LiveNext]_vars /\ WF_vars(LiveTurn) /\ WF_vars(Exhaust)

-----------------------------------------------------------------------------
(* The registry under a model that settles at once: the same agent with a  *)
(* larger registry, tools re-registered under a name already in use, and a  *)
(* model collaborator that answers or calls the first tool without          *)
(* parameters.                                                              *)

\* Largest registry explored by RegistrySpec.
MaxRegistry == 2

\* The (name, description, function) triples registered; two of them share
\* the name "calculator".
RegistryBox ==
    { [name |-> "calculator", description |-> "Evaluates expressions", function |-> "calculator"],
      [name |-> "calculator", description |-> "Adds numbers", function |-> "blank"],
      [name |-> "noop", description |-> "Returns nothing", function |-> "noop"],
      [name |-> "blank", description |-> "Returns empty text", function |-> "blank"] }

RegistryNames == { e.name : e \in RegistryBox } \cup {"ghost"}

RegistryReplies(reg) ==
    { Json(Obj(NoneStr, NoneStr, Answer42)) }
    \cup { Json(Obj(PyStr(<<reg[i].name>>), NoneStr, NoneStr)) : i \in {1} \cap DOMAIN reg }

RegAddTool == AddToolFrom(RegistryBox, MaxRegistry)

RegTurn == TurnFrom(RegistryReplies(tools))

\* The requests passed to invoke under RegistrySpec.
RegistryQueries == {"q1", "q2"}

RegInvokeStart == InvokeStartWith(RegistryQueries)

RegistryNext ==
    SetLLM \/ RegAddTool \/ RemoveTool \/ RegInvokeStart \/ RegTurn \/ Exhaust \/ Return

RegistrySpec == Init /\ [][RegistryNext]_vars

-----------------------------------------------------------------------------
(* The binder called directly: ToolExecutor.execute of a FlexibleAgent's    *)
(* tool_executor, or the module function execute_tool on a ToolCallAgent's  *)
(* tools, with parameter values of every shape a caller can pass.           *)

\* {"expression": "2+2", "2": 7}: the first key is a name, the second is not.
KwTwoParams ==
    PyDict(<< <<PyStr(<<"expression">>), PyStr(<<"2+2">>)>>, <<PyStr(<<"2">>), PyInt(7)>> >>)
\* {"1": " 2 ,3 "}: an unnamed entry with a comma-delimited value.
PosValueParams == PyDict(<< <<PyStr(<<"1">>), PyStr(<<" ", "2", " ", ",", "3", " ">>)>> >>)
\* {"1": 7}: an unnamed entry with a number for value.
PosNumberParams == PyDict(<< <<PyStr(<<"1">>), PyInt(7)>> >>)
\* {"2,3": None}: an unnamed entry without a value.
PosNoValueParams == PyDict(<< <<PyStr(<<"2", ",", "3">>), PyNone>> >>)
\* {"2,3": 0}: an unnamed entry whose value is falsy.
PosZeroParams == PyDict(<< <<PyStr(<<"2", ",", "3">>), PyInt(0)>> >>)
\* {"": "x, y"}: an entry under the empty key.
EmptyKeyParams == PyDict(<< <<EmptyStr, PyStr(<<"x", ",", " ", "y">>)>> >>)
\* {"1": "2,3", "expression": "x"}: an unnamed first entry followed by a named one.
PosTwoParams ==
    PyDict(<< <<PyStr(<<"1">>), PyStr(<<"2", ",", "3">>)>>,
              <<PyStr(<<"expression">>), PyStr(<<"x">>)>> >>)
\* {"2, 3"}: a set of one comma-delimited string.
SetParams == PySet(<<PyStr(<<"2", ",", " ", "3">>)>>)
\* ["x", "y"]
ListParams == PyList(<<PyStr(<<"x">>), PyStr(<<"y">>)>>)
\* The values that carry no parameters: None, "", "None", {}, [] and set().
NoValueParams == {PyNone, EmptyStr, NoneStr, PyDict(<<>>), PyList(<<>>), PySet(<<>>)}

\* The parameter values the binder is called with.
BinderParams ==
    NoValueParams \cup
    {PyInt(7), NumParams, TextParams,
     KwParams, KwTwoParams, PosParams, PosValueParams, PosNumberParams, PosNoValueParams,
     PosZeroParams, EmptyKeyParams, PosTwoParams, SetParams, ListParams}

\* tool_executor.execute(tool_name, params) / execute_tool(tool_name, params, tools)
bind(k, reg, tool_name, params) ==
    IF k = "flexible" THEN execute(reg, tool_name, params)
    ELSE execute_tool(tool_name, params, reg)

\* A caller runs the binder on the agent's registry outside invoke; the call
\* is recorded, and what it returned or raised is the outcome.
DirectExecute ==
    /\ pc = "idle"
    /\ \E n \in Names(tools) \cup {"ghost"}, params \in BinderParams :
        LET x == bind(kind, tools, PyStr(<<n>>), params)
        IN  /\ exec_calls' = <<ExecRec(PyStr(<<n>>), params, x)>>
            /\ outcome' = [tag |-> IF x.raised THEN "raised" ELSE "executed", val |-> x.val]
    /\ pc' = "done"
    /\ UNCHANGED <<kind, config, pair, provider, llm, prompt_template, tools, compiled, max_iterations, iteration,
                   scratchpad, llm_calls, reply, prompt_text, sent>>

BinderNext == AddTool \/ RemoveTool \/ DirectExecute \/ Return

BinderSpec == Init /\ [][BinderNext]_vars

-----------------------------------------------------------------------------
(* FlexibleAgents built from every predefined configuration and from       *)
(* configurations made by create_custom_config, with a model collaborator   *)
(* that answers in the configuration's own response format.                 *)

\* required_keys a caller passes to create_custom_config.
CustomKeys == { <<"tool", "params", "response">>, <<"action", "input", "output">>, <<"foo">> }

\* key_mapping a caller passes to create_custom_config: None, or a dict.
CustomMappings ==
    { [given |-> FALSE, dict |-> EmptyDict],
      [given |-> TRUE,
       dict |-> ("tool" :> "action") @@ ("params" :> "input") @@ ("response" :> "output")] }

CustomConfigs ==
    { create_custom_config("Custom", NoneStr, rk, km) : rk \in CustomKeys, km \in CustomMappings }

PredefinedConfigs == { get_agent_config(n) : n \in DOMAIN AGENT_CONFIGS }

\* The one tool registered under ConfigSpec.
ConfigBox ==
    { [name |-> "calculator", description |-> "Evaluates expressions", function |-> "calculator"] }

KeySet(keys) == { keys[i] : i \in 1..Len(keys) }

\* A decoded JSON object with every required key of fmt: t, p and a under the
\* keys the tool, params and response roles resolve to, "" under any other.
FormatObj(fmt, t, p, a) ==
    [k \in KeySet(fmt.required_keys) |->
        IF k = get_json_key(fmt, "tool") THEN t
        ELSE IF k = get_json_key(fmt, "params") THEN p
        ELSE IF k = get_json_key(fmt, "response") THEN a
        ELSE EmptyStr]

\* The replies of a model collaborator that follows cfg's prompt: the tool
\* field holds the documented "no tool" value, "None", null or a registered
\* name.
ConfigReplies(cfg, reg) ==
    {Malformed}
    \cup { Json(FormatObj(cfg.response_format, t, KwParams, a)) :
              t \in {cfg.no_tool, NoneStr, PyNone} \cup { PyStr(<<n>>) : n \in Names(reg) },
              a \in AnswerVals }

\* FlexibleAgent.__init__: the agent takes its prompt template and response
\* format from the config; no LLM and no tool yet.
ConfigInit ==
    /\ kind = "flexible"
    /\ config \in PredefinedConfigs \cup CustomConfigs
    /\ llm = "unset"
    /\ prompt_template = "set"
    /\ tools = <<>>
    /\ compiled = NoPrompt
    /\ pc = "idle"
    /\ max_iterations = 0
    /\ iteration = 0
    /\ scratchpad = <<>>
    /\ llm_calls = 0
    /\ exec_calls = <<>>
    /\ reply = NoReply
    /\ outcome = NoOutcome
    /\ prompt_text = NoPromptText
    /\ sent = <<>>
    /\ pair = NoPair
    /\ provider = NoProvider

ConfigAddTool == AddToolFrom(ConfigBox, MaxTools)

ConfigTurn == TurnFrom(ConfigReplies(config, tools))

ConfigNext == SetLLM \/ ConfigAddTool \/ InvokeStart \/ ConfigTurn \/ Exhaust \/ Return

ConfigSpec == ConfigInit /\ [][ConfigNext]_vars

-----------------------------------------------------------------------------
(* Two FlexibleAgents built from one AgentConfig.  The heap holds the       *)
(* ToolExecutor objects; an agent refers to its executor by identity, and   *)
(* both agents refer to the one config object.                              *)

\* The single loop-driven agent of the other specifications is not in use.
NoSingleAgent ==
    /\ kind = "flexible"
    /\ llm = "unset"
    /\ prompt_template = "set"
    /\ tools = <<>>
    /\ compiled = NoPrompt
    /\ pc = "idle"
    /\ max_iterations = 0
    /\ iteration = 0
    /\ scratchpad = <<>>
    /\ llm_calls = 0
    /\ exec_calls = <<>>
    /\ reply = NoReply
    /\ outcome = NoOutcome
    /\ prompt_text = NoPromptText
    /\ sent = <<>>
    /\ config = TOOLCALL_AGENT_CONFIG

\* A constructor that hands every agent the executor allocated first.
new_tool_executor_shared(heap) == 1

\* self.tool_executor = ToolExecutor(): the identity of a newly allocated object.
new_tool_executor(heap) == Len(heap) + 1

\* FlexibleAgent.__init__ on top of BaseAgent.__init__, in a heap p.
FlexibleAgent(p, cfg) ==
    LET id == new_tool_executor(p.heap)
    IN  [heap |-> IF id > Len(p.heap) THEN Append(p.heap, <<>>) ELSE p.heap,
         agents |-> Append(p.agents,
                      [llm |-> "unset", tool_executor |-> id, compiled |-> NoPrompt,
                       prompt_template |-> "set", max_iterations |-> cfg.max_iterations]),
         config |-> cfg,
         last |-> 0,
         budget |-> 0]

\* FlexibleAgent.from_config_name, for a name the registry holds.
from_config_name(p, config_name) == FlexibleAgent(p, AGENT_CONFIGS[config_name])

\* A heap without agents; last is the agent the latest call was made on and
\* budget the local max_iterations of the latest invoke that passed validation.
EmptyHeap ==
    [heap |-> <<>>, agents |-> <<>>, config |-> TOOLCALL_AGENT_CONFIG, last |-> 0, budget |-> 0]

PairInit ==
    /\ NoSingleAgent
    /\ provider = NoProvider
    /\ \E n \in DOMAIN AGENT_CONFIGS :
          pair = from_config_name(from_config_name(EmptyHeap, n), n)

\* The registry agent a sees: the tools of the executor it refers to.
ToolsOf(p, a) == p.heap[p.agents[a].tool_executor]

\* p after agent a's registry and compiled prompt became reg and prompt.
PairUpdate(p, a, reg, prompt) ==
    [p EXCEPT !.heap[p.agents[a].tool_executor] = reg,
              !.agents[a].compiled = prompt,
              !.last = a]

PairFrame ==
    UNCHANGED <<kind, config, provider, llm, prompt_template, tools, compiled, pc,
                max_iterations, iteration, scratchpad, llm_calls, exec_calls, reply, outcome,
                prompt_text, sent>>

\* set_llm on one of the two agents.
PairSetLLM ==
    /\ \E a \in DOMAIN pair.agents :
          pair' = [pair EXCEPT !.agents[a].llm = "mock", !.last = a]
    /\ PairFrame

\* add_tool on one of the two agents.
PairAddTool ==
    /\ \E a \in DOMAIN pair.agents, e \in ToolBox :
        /\ HasTool(ToolsOf(pair, a), e.name) \/ Len(ToolsOf(pair, a)) < MaxTools
        /\ LET r == add_tool("flexible", ToolsOf(pair, a), pair.agents[a].compiled, e)
           IN  pair' = PairUpdate(pair, a, r.reg, r.prompt)
    /\ PairFrame

\* remove_tool on one of the two agents, of a registered name or of one that is not.
PairRemoveTool ==
    /\ \E a \in DOMAIN pair.agents : \E name \in Names(ToolsOf(pair, a)) \cup {"ghost"} :
          LET r == remove_tool(ToolsOf(pair, a), pair.agents[a].compiled, name)
          IN  pair' = PairUpdate(pair, a, r.reg, r.prompt)
    /\ PairFrame

\* The max_iterations keyword of an invoke call: absent, or a number.
Overrides == {<<>>} \cup { <<n>> : n \in 1..MaxBudget }

\* kwargs.get('max_iterations', self.max_iterations)
kwargs_get(override, default) == IF override = <<>> THEN default ELSE override[1]

\* A whole invoke on one of the two agents, with or without a max_iterations
\* override.  It raises when validation fails; else it caches the compiled
\* prompt if none is cached.  The budget, the bound prompt, the transcript
\* and the iteration count are locals of the call.
PairInvoke ==
    /\ \E a \in DOMAIN pair.agents, override \in Overrides :
          LET me == pair.agents[a]
              v == validate_setup(me.llm, ToolsOf(pair, a), me.prompt_template)
              after == PairUpdate(pair, a, ToolsOf(pair, a),
                          IF v.ok /\ ~me.compiled.set
                          THEN compile_prompt("flexible", ToolsOf(pair, a))
                          ELSE me.compiled)
          IN  pair' = IF v.ok
                      THEN [after EXCEPT !.budget = kwargs_get(override, me.max_iterations)]
                      ELSE after
    /\ PairFrame

PairNext == PairSetLLM \/ PairAddTool \/ PairRemoveTool \/ PairInvoke

PairSpec == PairInit /\ [][PairNext]_vars

-----------------------------------------------------------------------------
(* One AnthropicWrapper object and the requests it sends to the client.    *)

\* Most generate_response calls made on the wrapper.
MaxCalls == 2

\* The max_tokens sent when the wrapper holds none.
DefaultMaxTokens == 4096

\* A keyword argument that is absent (<<>>) or has the value o[1].
Opt(key, o) == IF o = <<>> THEN EmptyDict ELSE (key :> o[1])

\* The **kwargs a caller constructs the wrapper with.
ProviderKwargs ==
    { Opt("max_tokens", a) @@ Opt("temperature", b) @@ Opt("top_k", c) :
        a \in {<<>>, <<256>>, <<1024>>}, b \in {<<>>, <<0>>, <<1>>}, c \in {<<>>, <<5>>} }

\* The prompts the wrapper is called with.
ProviderPrompts == {"p1", "p2"}

\* dict.pop(key, default): the value handed back and the dict left behind.
pop(d, key, default) ==
    [value |-> IF key \in DOMAIN d THEN d[key] ELSE default,
     dict |-> [k \in DOMAIN d \ {key} |-> d[k]]]

\* AnthropicWrapper.__init__: self.kwargs = kwargs.  constructed keeps the
\* keyword arguments as the caller gave them, requests what was sent.
AnthropicWrapper(kwargs) == [kwargs |-> kwargs, constructed |-> kwargs, requests |-> <<>>]

\* AnthropicWrapper.generate_response: the arguments of messages.create are
\* evaluated left to right, so max_tokens is popped from self.kwargs before
\* **self.kwargs is expanded.
generate_response(w, prompt) ==
    LET popped == pop(w.kwargs, "max_tokens", DefaultMaxTokens)
    IN  [w EXCEPT !.kwargs = popped.dict,
                  !.requests = Append(@, [max_tokens |-> popped.value,
                                          settings |-> popped.dict,
                                          prompt |-> prompt])]

ProviderInit ==
    /\ NoSingleAgent
    /\ pair = NoPair
    /\ \E k \in ProviderKwargs : provider = AnthropicWrapper(k)

\* One generate_response call on the wrapper.
ProviderCall ==
    /\ Len(provider.requests) < MaxCalls
    /\ \E prompt \in ProviderPrompts : provider' = generate_response(provider, prompt)
    /\ UNCHANGED <<kind, config, pair, llm, prompt_template, tools, compiled, pc,
                   max_iterations, iteration, scratchpad, llm_calls, exec_calls, reply,
                   outcome, prompt_text, sent>>

ProviderNext == ProviderCall

ProviderSpec == ProviderInit /\ [][ProviderNext]_vars

-----------------------------------------------------------------------------
(* Vocabulary of the properties.                                           *)

\* At least one model call has been made by the invoke in progress, so reply
\* is the model's latest turn.
TurnTaken == pc \in {"loop", "done"} /\ llm_calls >= 1

\* The reply decoded to an object that carries every required key.
Complete(r) ==
    /\ r.kind = "text"
    /\ r.block = "json"
    /\ \A i \in 1..Len(RequiredKeys) : RequiredKeys[i] \in DOMAIN r.obj

ToolOf(r) == r.obj["Tool call"]
AnswerOf(r) == r.obj["Final Response"]

\* A role is populated: a non-empty string other than the "None" marker.
Populated(x) == x.t = "str" /\ x.v # <<>> /\ ~IsNoneStr(x)

Registered(x) == InTools(tools, x)

NamesRegisteredTool(r) == Complete(r) /\ Registered(ToolOf(r))
AnswerTurn(r) == Complete(r) /\ IsNoneStr(ToolOf(r)) /\ Populated(AnswerOf(r))

\* Every earlier turn of this invoke named a registered tool.
AllEntriesRegistered == \A i \in 1..Len(scratchpad) : Registered(scratchpad[i].tool)

\* The text tokens of a value.
Tokens(x) == { x.v[i] : i \in 1..Len(x.v) }

\* The result of a tool-function call is missing: None or the empty string.
MissingResult(c) ==
    /\ ~c.result.raised
    /\ \/ c.result.val.t = "NoneType"
       \/ c.result.val.t = "str" /\ c.result.val.v = <<>>

-----------------------------------------------------------------------------
(* Properties.                                                             *)

\* C1: when the model names a registered tool on every turn, invoke ends only
\* by exhausting the budget: max_iterations model calls were made, exactly
\* max_iterations transcript entries were appended, and the budget-exhausted
\* result is returned.
C1_BudgetBoundary ==
    (pc = "done" /\ TurnTaken /\ NamesRegisteredTool(reply) /\ AllEntriesRegistered)
    => /\ outcome.tag = "budget"
       /\ llm_calls = max_iterations
       /\ Len(scratchpad) = max_iterations

\* C2: a turn whose answer is populated ends the loop on that turn with that
\* answer, whether or not the turn also names a tool; no tool is executed on it.
C2_AnswerPrecedence ==
    (TurnTaken /\ Complete(reply) /\ Populated(AnswerOf(reply)))
    => /\ pc = "done"
       /\ outcome = [tag |-> "final", val |-> AnswerOf(reply)]
       /\ Len(exec_calls) < llm_calls

\* C3: a run of k registered-tool turns (k below the budget) followed by an
\* answer turn ends at the answer turn, not before: it returns that answer
\* after k + 1 model calls, k tool executions and k transcript entries, the
\* entries in call order.
C3_ToolThenAnswer ==
    (pc = "done" /\ TurnTaken /\ AllEntriesRegistered)
    => /\ ~(NamesRegisteredTool(reply) /\ llm_calls < max_iterations)
       /\ AnswerTurn(reply) =>
            /\ outcome = [tag |-> "final", val |-> AnswerOf(reply)]
            /\ Len(scratchpad) = llm_calls - 1
            /\ Len(exec_calls) = llm_calls - 1
            /\ \A i \in 1..Len(scratchpad) : scratchpad[i].tool = exec_calls[i].tool

\* C4: a reply with no structured block, or with a block that does not decode,
\* ends invoke on that turn with the parse error returned; no tool is executed
\* on that turn, every transcript entry is one of an earlier turn, and the
\* model is not called again.
C4_ParseFailureAborts ==
    (TurnTaken /\ reply.kind = "text" /\ reply.block \in {"none", "malformed"})
    => /\ pc = "done"
       /\ outcome.tag = "parse_error"
       /\ Head(outcome.val.v) = "Error parsing response: "
       /\ Len(scratchpad) = llm_calls - 1
       /\ Len(exec_calls) = llm_calls - 1

\* C4 witness: the second turn of an invoke has no structured block; the
\* entry of the first turn is still in the transcript.
C4_Witness ==
    /\ pc = "done"
    /\ reply = NoBlock
    /\ outcome.tag = "parse_error"
    /\ llm_calls = 2
    /\ Len(scratchpad) = 1

\* C5: a FlexibleAgent turn that names an unregistered tool and gives no answer
\* aborts invoke on that turn with an error naming the tool; no tool function
\* is called.
C5_UnknownToolAborts ==
    (kind = "flexible" /\ TurnTaken /\ Complete(reply)
        /\ ToolOf(reply) = PyStr(<<"ghost">>) /\ ~Populated(AnswerOf(reply)))
    => /\ pc = "done"
       /\ outcome.tag \notin {"final", "budget"}
       /\ "ghost" \in Tokens(outcome.val)
       /\ \A i \in 1..Len(exec_calls) : exec_calls[i].tool = ToolOf(reply) => exec_calls[i].calls = <<>>

\* C6: a turn with neither a populated answer nor a tool name does not end
\* invoke through the final-answer return.
C6_EmptyTurnAborts ==
    (TurnTaken /\ Complete(reply) /\ ~Populated(ToolOf(reply)) /\ ~Populated(AnswerOf(reply)))
    => /\ pc = "done"
       /\ outcome.tag # "final"

\* C7: a failing generate_response ends invoke with a returned result; no
\* exception escapes invoke.
C7_ModelFailureReturned ==
    (TurnTaken /\ reply.kind = "raise")
    => /\ pc = "done"
       /\ outcome.tag # "raised"

\* A raising tool function is absorbed by an agent of class k: the exception
\* does not leave the execution or invoke, the transcript entry of that
\* execution is the error text with the tool name and the message, and the
\* loop goes on to the next model call unless the budget is spent.
ToolFailureAbsorbed(k) ==
    kind = k =>
        \A i \in 1..Len(exec_calls) : \A j \in 1..Len(exec_calls[i].calls) :
            LET c == exec_calls[i].calls[j]
            IN  c.result.raised =>
                  /\ ~exec_calls[i].raised
                  /\ outcome.tag # "raised" \/ i < Len(exec_calls) \/ reply.kind = "raise"
                  /\ Len(scratchpad) >= i
                  /\ scratchpad[i] = [tool |-> exec_calls[i].tool,
                                      result |-> ErrExec(c.tool, c.result.val)]
                  /\ (pc = "done" /\ i = llm_calls) => outcome.tag = "budget"

\* C8: in FlexibleAgent a raising tool function, called with or without
\* arguments, never makes invoke raise; its error text is the transcript entry
\* and the loop continues.
C8_ToolFailureRecoverable == ToolFailureAbsorbed("flexible")

\* C8 witness: a registered tool called with zero arguments raised on the
\* first turn, and the loop is about to call the model again.
C8_Witness ==
    /\ kind = "flexible"
    /\ pc = "loop"
    /\ iteration < max_iterations
    /\ Len(exec_calls) = 1
    /\ Len(exec_calls[1].calls) = 1
    /\ exec_calls[1].calls[1].result.raised
    /\ exec_calls[1].calls[1].args = <<>>
    /\ exec_calls[1].calls[1].kwargs = <<>>
    /\ Len(scratchpad) = 1

\* C9: in the packaged agent a raising tool function never makes execute_tool
\* or invoke raise, for any parameters value; its error text is the scratchpad
\* entry and the loop continues.
C9_PackagedToolFailureAbsorbed == ToolFailureAbsorbed("packaged")

\* C10: a tool function that returns None or an empty result leaves an error
\* naming the tool in the transcript entry of that call, never the text "None"
\* or an empty string.
C10_MissingResultIsError ==
    \A i \in 1..Len(scratchpad) : \A j \in 1..Len(exec_calls[i].calls) :
        LET c == exec_calls[i].calls[j]
        IN  MissingResult(c) =>
              /\ scratchpad[i].result \notin {NoneStr, EmptyStr}
              /\ c.tool \in Tokens(scratchpad[i].result)

\* C11: invoke fails with a configuration error exactly when the agent has no
\* LLM, or no registered tool, or (FlexibleAgent) no prompt template; a failed
\* validation ends invoke before any model call and any tool call, and an
\* agent with an LLM, a tool and a template enters the loop.
C11_ConfigValidatedFirst ==
    pc \in {"loop", "done"} =>
        /\ outcome.tag = "config_error"
              <=> \/ llm = "unset"
                  \/ tools = <<>>
                  \/ kind = "flexible" /\ prompt_template = "unset"
        /\ outcome.tag = "config_error"
              => /\ pc = "done"
                 /\ llm_calls = 0
                 /\ exec_calls = <<>>
                 /\ scratchpad = <<>>

\* C11 witness: a FlexibleAgent with an LLM and a tool but no prompt template
\* was invoked and failed validation.
C11_Witness ==
    /\ kind = "flexible"
    /\ pc = "done"
    /\ llm = "mock"
    /\ tools # <<>>
    /\ prompt_template = "unset"
    /\ outcome = [tag |-> "config_error", val |-> PyStr(<<"Prompt template not set">>)]

\* The required keys the latest reply's decoded block lacks.
MissingOf(r) == MissingKeys(r.obj, RequiredKeys)

\* C17: in FlexibleAgent a reply whose decoded block lacks required keys ends
\* invoke on that turn with the parse error that lists exactly the missing
\* keys; no tool is executed on that turn and no answer is returned.
C17_MissingFieldsAbort ==
    (kind = "flexible" /\ TurnTaken /\ reply.kind = "text" /\ reply.block = "json"
        /\ MissingOf(reply) # <<>>)
    => /\ pc = "done"
       /\ outcome.tag = "parse_error"
       /\ outcome.val.v = <<"Error parsing response: ", "Missing required keys: ">>
                              \o MissingOf(reply)
       /\ Len(exec_calls) = llm_calls - 1
       /\ Len(scratchpad) = llm_calls - 1

\* C17 witness: a reply that gives an answer but leaves out the parameters
\* key ended a FlexibleAgent invoke with the missing-keys error.
C17_Witness ==
    /\ kind = "flexible"
    /\ pc = "done"
    /\ reply.block = "json"
    /\ MissingOf(reply) = <<"Tool Parameters">>
    /\ "Final Response" \in DOMAIN reply.obj
    /\ outcome.tag = "parse_error"

\* C18: the result returned when the budget is exhausted reports every tool
\* call/result pair of the transcript.
C18_BudgetCarriesTranscript ==
    outcome.tag = "budget" =>
        \A i \in 1..Len(scratchpad) :
            /\ Tokens(scratchpad[i].tool) \subseteq Tokens(outcome.val)
            /\ Tokens(scratchpad[i].result) \subseteq Tokens(outcome.val)

\* The prompt sent to the model lists exactly the registered tools, for an
\* agent of class k: once the model has been called in an invoke, the
\* compiled prompt that invoke formatted renders the current registry (the
\* registry does not change while invoke runs).
PromptFollowsRegistry(k) ==
    (kind = k /\ TurnTaken) =>
        /\ compiled.set
        /\ compiled.tool_list = compile_prompt(k, tools).tool_list

\* C12: in FlexibleAgent, after any interleaving of add_tool, remove_tool and
\* invoke, the prompt an invoke sends renders exactly the tools registered at
\* its start; a prompt compiled before a registry mutation is not used after it.
C12_FlexiblePromptFollowsRegistry == PromptFollowsRegistry("flexible")

\* C12 witness: a FlexibleAgent is in the loop with two registered tools, both
\* rendered in its prompt in registry order.
C12_Witness ==
    /\ kind = "flexible"
    /\ TurnTaken
    /\ Len(tools) = 2
    /\ compiled.tool_list = get_tools_description(tools)

\* C13: in the packaged ToolCallAgent, after any sequence of add_tool and
\* invoke, the prompt an invoke sends lists exactly the tools registered at
\* its start.
C13_PackagedPromptFollowsRegistry == PromptFollowsRegistry("packaged")

\* The info dict register_tool stores for an entry.
InfoOf(e) == [found |-> TRUE, description |-> e.description, function |-> e.function]

\* The position of a registered name in list_tools().
Position(reg, name) == CHOOSE i \in 1..Len(reg) : list_tools(reg)[i] = name

\* C14: no step changes the description or the function bound to a name that
\* is registered before and after it: registering under a name already in use
\* leaves the registry as it was.
C14_DuplicateRejected ==
    [][\A n \in RegistryNames :
          (HasTool(tools, n) /\ HasTool(tools', n)) => get_tool(tools', n) = get_tool(tools, n)]_vars

\* C15: a step that registers an entry leaves get_tool(name) returning that
\* description and function; a step that unregisters a name leaves
\* get_tool(name) not found and the name out of list_tools(); and a step
\* changes what get_tool returns for one name at most, so operations under
\* other names do not disturb either result.
C15_RegistryRoundTrip ==
    [][/\ \A e \in RegistryBox :
            tools' = register_tool(tools, e) => get_tool(tools', e.name) = InfoOf(e)
       /\ \A n \in RegistryNames :
            tools' = unregister_tool(tools, n).reg
               => /\ get_tool(tools', n) = NotFound
                  /\ \A i \in 1..Len(tools') : list_tools(tools')[i] # n
       /\ Cardinality({ n \in RegistryNames : get_tool(tools', n) # get_tool(tools, n) }) <= 1
      ]_vars

\* C15 witness: "calculator" was registered after "noop" with the second
\* description and function, and get_tool returns them; "blank" is not found.
C15_Witness ==
    /\ list_tools(tools) = <<"noop", "calculator">>
    /\ get_tool(tools, "calculator")
          = [found |-> TRUE, description |-> "Adds numbers", function |-> "blank"]
    /\ get_tool(tools, "blank") = NotFound

\* C16: list_tools() holds each registered name once; a step keeps the
\* relative order of the names it leaves registered and puts a newly
\* registered name last; get_tools_description() is one
\* "- <name>: <description>" line per name of list_tools(), in that order.
C16_RegistrationOrder ==
    [][/\ Len(list_tools(tools')) = Cardinality(Names(tools'))
       /\ \A m, n \in Names(tools) \cap Names(tools') :
            Position(tools, m) < Position(tools, n) => Position(tools', m) < Position(tools', n)
       /\ \A n \in Names(tools') \ Names(tools) : Position(tools', n) = Len(tools')
       /\ get_tools_description(tools')
            = [i \in 1..Len(list_tools(tools')) |->
                  <<"- ", list_tools(tools')[i], ": ",
                    get_tool(tools', list_tools(tools')[i]).description>>]
      ]_vars

\* C16 witness: two tools are registered, "blank" before "noop", and the
\* prompt a FlexibleAgent sent renders them in that order.
C16_Witness ==
    /\ kind = "flexible"
    /\ TurnTaken
    /\ list_tools(tools) = <<"blank", "noop">>
    /\ compiled.tool_list = << <<"- ", "blank", ": ", "Returns empty text">>,
                               <<"- ", "noop", ": ", "Returns nothing">> >>

\* The first key and the first value of a non-empty mapping.
FirstKey(p) == p.v[1][1]
FirstValue(p) == p.v[1][2]

\* A non-empty mapping whose first key contains an alphabetic character.
NamedMapping(p) == p.t = "dict" /\ Len(p.v) > 0 /\ HasAlpha(FirstKey(p))
\* A non-empty mapping whose first key contains none.
UnnamedMapping(p) == p.t = "dict" /\ Len(p.v) > 0 /\ ~HasAlpha(FirstKey(p))
\* A set of one element.
SetLike(p) == p.t = "set" /\ Len(p.v) = 1

\* The execution x made exactly one call, of the function registered under
\* its tool name, with these positional and named arguments.
CalledOnceWith(x, args, kwargs) ==
    /\ Len(x.calls) = 1
    /\ x.calls[1].function = Lookup(tools, NameOf(x.tool)).function
    /\ x.calls[1].args = args
    /\ x.calls[1].kwargs = kwargs

\* C19: a non-empty mapping whose first key contains an alphabetic character
\* makes one call of the tool function with named arguments only, one per
\* entry, keys and values as given.
C19_BinderNamedArguments ==
    \A i \in 1..Len(exec_calls) :
        LET x == exec_calls[i]
        IN  (Registered(x.tool) /\ NamedMapping(x.params))
               => CalledOnceWith(x, <<>>, x.params.v)

\* C19 witness: the packaged binder was given {"expression": "2+2", "2": 7}
\* and made one call with both entries as named arguments.
C19_Witness ==
    /\ kind = "packaged"
    /\ Len(exec_calls) = 1
    /\ exec_calls[1].params = KwTwoParams
    /\ Len(exec_calls[1].calls) = 1
    /\ Len(exec_calls[1].calls[1].kwargs) = 2

\* The comma-delimited string of an unnamed entry: the value, or the key when
\* the entry has no value (the value is None, empty or zero: Python's truth
\* test); of a set, its element.
UnnamedString(p) ==
    IF p.t = "set" THEN p.v[1]
    ELSE IF Truthy(FirstValue(p)) THEN FirstValue(p) ELSE FirstKey(p)

\* C20: a mapping whose first key contains no alphabetic character, or a set
\* of one element, makes one call of the tool function with positional
\* arguments only: the comma-separated segments of the entry's value (of the
\* key when there is no value), each stripped of surrounding whitespace, in
\* order; the entry "2, 3" calls f("2", "3").
C20_BinderUnnamedEntry ==
    \A i \in 1..Len(exec_calls) :
        LET x == exec_calls[i]
        IN  (Registered(x.tool) /\ (UnnamedMapping(x.params) \/ SetLike(x.params)))
               => /\ CalledOnceWith(x, SplitParams(UnnamedString(x.params)), <<>>)
                  /\ x.params \in {PosParams, PosValueParams, PosNoValueParams, PosZeroParams,
                                    PosTwoParams, SetParams}
                        => x.calls[1].args = <<PyStr(<<"2">>), PyStr(<<"3">>)>>
                  /\ \A j \in 1..Len(x.calls[1].args) :
                        /\ "," \notin Tokens(x.calls[1].args[j])
                        /\ x.calls[1].args[j].v # <<>>
                              => /\ Head(x.calls[1].args[j].v) # " "
                                 /\ x.calls[1].args[j].v[Len(x.calls[1].args[j].v)] # " "

\* C20 witness: the FlexibleAgent binder was given {"1": " 2 ,3 "} and called
\* the tool function with "2" and "3".
C20_Witness ==
    /\ kind = "flexible"
    /\ Len(exec_calls) = 1
    /\ exec_calls[1].params = PosValueParams
    /\ Len(exec_calls[1].calls) = 1
    /\ exec_calls[1].calls[1].args = <<PyStr(<<"2">>), PyStr(<<"3">>)>>
    /\ exec_calls[1].calls[1].kwargs = <<>>

\* A scalar that carries a value: a number other than zero, or a string other
\* than "" and "None" that is not itself a JSON document.
ScalarValue(p) ==
    \/ p.t = "int" /\ p # PyInt(0)
    \/ p.t = "str" /\ p \notin NoValueParams /\ ~json_loads(p).ok

\* C21: ToolExecutor.execute, given a scalar that carries a value (a free-form
\* string such as a city name, a number), calls the tool function once with
\* that scalar as its only positional argument.
C21_BinderScalar ==
    \A i \in 1..Len(exec_calls) :
        LET x == exec_calls[i]
        IN  (kind = "flexible" /\ Registered(x.tool) /\ ScalarValue(x.params))
               => CalledOnceWith(x, <<x.params>>, <<>>)

\* C22: a non-empty list makes one call of the tool function with the
\* elements as positional arguments, in order, in ToolExecutor.execute and in
\* the packaged execute_tool.
C22_BinderSequence ==
    \A i \in 1..Len(exec_calls) :
        LET x == exec_calls[i]
        IN  (Registered(x.tool) /\ x.params.t = "list" /\ Len(x.params.v) > 0)
               => CalledOnceWith(x, x.params.v, <<>>)

\* C23: parameters that are absent, empty (mapping, sequence, string) or the
\* "None" marker make one call of the tool function with no argument at all;
\* the test comes before the decoding of strings and the test of the type.
C23_BinderNoParameters ==
    \A i \in 1..Len(exec_calls) :
        LET x == exec_calls[i]
        IN  (Registered(x.tool) /\ x.params \in NoValueParams)
               => CalledOnceWith(x, <<>>, <<>>)

\* C23 witness: ToolExecutor.execute was given the empty string and called
\* the tool function without arguments.
C23_Witness ==
    /\ kind = "flexible"
    /\ Len(exec_calls) = 1
    /\ exec_calls[1].params = EmptyStr
    /\ Len(exec_calls[1].calls) = 1
    /\ exec_calls[1].calls[1].args = <<>>
    /\ exec_calls[1].calls[1].kwargs = <<>>

\* C25: no state crosses requests.  Every invoke enters its loop with
\* iteration 0 and an empty transcript, the first prompt it sends replays no
\* tool entry, the iteration count equals the number of model calls made in
\* this invoke, and the budget message is only returned after max_iterations
\* model calls of this invoke.
C25_NoStateCrossesRequests ==
    /\ (pc = "loop" /\ llm_calls = 0) => (scratchpad = <<>> /\ iteration = 0)
    /\ TurnTaken => sent[1].scratchpad = <<>>
    /\ iteration = llm_calls
    /\ outcome.tag = "budget" => llm_calls = max_iterations

\* C25 witness: a ToolCallAgent whose cached prompt predates its latest tool,
\* so it has been invoked before, has sent the first prompt of a new invoke
\* with an empty transcript at iteration 1.
C25_Witness ==
    /\ kind = "packaged"
    /\ compiled.set
    /\ compiled.tool_list # compile_prompt("packaged", tools).tool_list
    /\ pc = "loop"
    /\ llm_calls = 1
    /\ iteration = 1
    /\ sent[1].scratchpad = <<>>
    /\ scratchpad # <<>>

\* C26: the transcript is append-only and fully replayed.  The prompt of
\* iteration i is the compiled prompt with the request bound, followed by the
\* entries of iterations 1..i-1, and those entries are the tool names and the
\* stringified results of the tool calls, in call order.
C26_TranscriptReplayed ==
    /\ Len(sent) = llm_calls
    /\ \A i \in 1..Len(sent) :
        /\ sent[i].text = format_prompt(compiled, prompt_text.user_input)
        /\ Len(scratchpad) >= i - 1
        /\ sent[i].scratchpad = SubSeq(scratchpad, 1, i - 1)
    /\ Len(scratchpad) = Cardinality({ j \in 1..Len(exec_calls) : ~exec_calls[j].raised })
    /\ \A j \in 1..Len(scratchpad) :
        scratchpad[j] = [tool |-> exec_calls[j].tool, result |-> Str(exec_calls[j].returned)]

\* C26 witness: the third prompt of an invoke replays two different entries.
C26_Witness ==
    /\ Len(sent) = 3
    /\ Len(sent[3].scratchpad) = 2
    /\ sent[3].scratchpad[1] # sent[3].scratchpad[2]
    /\ sent[2].scratchpad = <<sent[3].scratchpad[1]>>

\* No model call and no tool-function call of this invoke has raised.
NoCallRaised ==
    /\ reply.kind # "raise"
    /\ \A j \in 1..Len(exec_calls) : \A c \in 1..Len(exec_calls[j].calls) :
          ~exec_calls[j].calls[c].result.raised

\* C27: the turn budget bounds every run.  An invoke makes at most
\* max_iterations model calls (the override, when one is passed) and at most
\* one tool execution per model call, it ends, and when every call returns
\* it ends with a final answer, a parse abort or the budget message.
C27_BudgetBoundsRun ==
    /\ [](llm_calls <= max_iterations)
    /\ [](Len(exec_calls) <= llm_calls)
    /\ []((pc = "done" /\ outcome.tag # "config_error" /\ NoCallRaised)
            => outcome.tag \in {"final", "parse_error", "budget"})
    /\ (pc = "loop" ~> pc = "done")

\* The field of the latest reply that a role resolves to.
FieldOf(role) == reply.obj[get_json_key(config.response_format, role)]

\* The latest model turn put the value the config's prompt documents as
\* "no tool" in the tool field and a populated answer in the answer field.
NoToolMarkerTurn ==
    /\ TurnTaken
    /\ reply.kind = "text"
    /\ reply.block = "json"
    /\ FieldOf("tool") = config.no_tool
    /\ Populated(FieldOf("response"))

\* C28: the no-tool marker is schema-specific.  For an agent built from a
\* predefined configuration, a turn whose tool field holds the value the
\* prompt documents as "no tool" and whose answer is populated ends the loop
\* on that turn with that answer, and no tool is looked up or executed on it.
C28_NoToolMarkerEndsLoop ==
    (config \in PredefinedConfigs /\ NoToolMarkerTurn)
        => /\ pc = "done"
           /\ outcome = [tag |-> "final", val |-> FieldOf("response")]
           /\ Len(exec_calls) = llm_calls - 1

\* The field name a role resolves to is a required key or has a default.
RoleResolved(cfg, role) ==
    LET key == get_json_key(cfg.response_format, role)
    IN  key \in KeySet(cfg.response_format.required_keys)
            \cup DOMAIN cfg.response_format.defaults

\* C29: schema role invariant.  For the configuration an agent was built
\* from, predefined or made by create_custom_config, the tool role and the
\* answer role each resolve to a field name that is a required key or has an
\* explicit default.
C29_SchemaRoleInvariant ==
    RoleResolved(config, "tool") /\ RoleResolved(config, "response")

\* What an agent owns: its tool registry, its cached compiled
\* prompt and its turn budget.
ViewOf(p, a) ==
    [registry |-> ToolsOf(p, a),
     compiled |-> p.agents[a].compiled,
     max_iterations |-> p.agents[a].max_iterations]

\* C24: agents sharing a configuration are isolated.  Every add_tool,
\* remove_tool and invoke on one of two agents built from the same AgentConfig
\* leaves the other agent's registry, compiled prompt and turn budget as they
\* were, and leaves the shared AgentConfig as it was.
C24_SharedConfigIsolation ==
    [][\A a \in DOMAIN pair.agents :
         pair'.last = a
            => /\ \A b \in DOMAIN pair.agents \ {a} : ViewOf(pair', b) = ViewOf(pair, b)
               /\ pair'.config = pair.config]_vars

\* C24 witness: the first agent has a tool and a cached prompt after an
\* invoke with an override of 1, and the second agent, built from the same config, has a different
\* tool and no cached prompt.
C24_Witness ==
    /\ pair # NoPair
    /\ pair.last = 1
    /\ ToolsOf(pair, 1) # <<>>
    /\ pair.agents[1].compiled.set
    /\ ToolsOf(pair, 2) # <<>>
    /\ ToolsOf(pair, 2) # ToolsOf(pair, 1)
    /\ ~pair.agents[2].compiled.set
    /\ pair.agents[1].tool_executor # pair.agents[2].tool_executor
    /\ pair.budget = 1
    /\ pair.agents[1].max_iterations = DefaultMaxIterations
    /\ pair.agents[2].max_iterations = DefaultMaxIterations

\* C30: stable provider settings across calls.  Every request an
\* AnthropicWrapper sends carries the max_tokens it was constructed with (4096
\* when none was given) and the other keyword settings it was constructed
\* with, however many requests were sent before it.
C30_StableProviderSettings ==
    \A i \in 1..Len(provider.requests) :
        /\ provider.requests[i].max_tokens
              = pop(provider.constructed, "max_tokens", DefaultMaxTokens).value
        /\ provider.requests[i].settings
              = pop(provider.constructed, "max_tokens", DefaultMaxTokens).dict

====
